---- MODULE Spec2Model ----
(***************************************************************************)
(* Order-book synchronisation of two cryptofeed exchange adapters:         *)
(*   Binance          (cryptofeed/exchange/binance.py)   window policy     *)
(*   PoloniexFutures  (cryptofeed/exchanges/poloniex_futures.py) strict    *)
(* One behaviour is the life of ONE feed object: Init picks which adapter  *)
(* class it is (variable feed), and only that adapter's actions fire.      *)
(*                                                                         *)
(* A Binance feed shards its streams over several websocket connections    *)
(* (Binance._address); every connection runs message_handler sequentially  *)
(* and all connections share the feed's dictionaries.  A handler is atomic *)
(* between two awaits, so Binance._book is two steps when it has to fetch  *)
(* a snapshot (up to the await of conn.get, and from the response on) and  *)
(* one step otherwise.                                                     *)
(***************************************************************************)
EXTENDS Integers, Sequences, FiniteSets, TLC

\* ------------------------------------------------------------- bounds
MaxId == 3         \* update identifiers / sequence numbers are 0..MaxId
MaxSize == 2       \* amounts are 0..MaxSize (0 = remove the level)

Ids == 0..MaxId
Sizes == 0..MaxSize
\* One price per side: a price is an opaque dictionary key to both adapters,
\* and bids and asks are separate dictionaries.
Prices == {1}

Syms == {"s1", "s2"}
\* c1 and c2 are websocket shards, c3 is the REST (https) connection
Conns == {"c1", "c2", "c3"}

ConnType(c) == IF c = "c3" THEN "https" ELSE "wss"

\* each stream <symbol>@depth is in exactly one connection's address
Owned(c) == IF c = "c1" THEN {"s1"} ELSE IF c = "c2" THEN {"s2"} ELSE {}

\* ------------------------------------------------------------ sentinels
NoId == -1          \* key absent from last_update_id / seq_no; None
NoLevel == -1       \* price absent from one side of a book
Undecodable == -1   \* a price string Decimal() rejects
NoBook == [none |-> TRUE]   \* key absent from l2_book / _l2_book
NoDepth == 0        \* self.max_depth unset (None, or 0): falsy

EmptySide == [p \in Prices |-> NoLevel]
EmptyDelta == [bid |-> <<>>, ask |-> <<>>]

\* ------------------------------------------------------------- inputs
Level == [price : Prices, amount : Sizes]
BadLevel == [price |-> Undecodable, amount |-> 0]

\* a side of a snapshot or of an update lists no level or one level
LevelLists == {<<>>} \cup {<<l>> : l \in Level}
\* a snapshot's level list may hold an entry that does not decode
SnapLists == LevelLists \cup {<<BadLevel>>}

\* two changes of one update that name the same price, which the loop of
\* _book applies in order: set and removed, removed and set, set and set again
TwoChanges ==
    {<<[price |-> p, amount |-> MaxSize], [price |-> p, amount |-> 0]>> : p \in Prices}
      \cup {<<[price |-> p, amount |-> 0], [price |-> p, amount |-> MaxSize]>> : p \in Prices}
      \cup {<<[price |-> p, amount |-> 1], [price |-> p, amount |-> MaxSize]>> : p \in Prices}

BidLists == LevelLists \cup TwoChanges

\* depthUpdate: U is the first and u the final update id of the event, so
\* U <= u in every event the exchange sends; the updates that change a bid
\* twice carry no ask
DepthUpdates ==
    {m \in [U : Ids, u : Ids, b : BidLists, a : LevelLists] :
        /\ m.U <= m.u
        /\ (Len(m.b) = 2 => m.a = <<>>)}

\* what the REST depth request comes back with: an exception (fetch_ok is
\* FALSE), or a document in which any of the three keys may be missing
SnapshotResponses ==
    {r \in [fetch_ok : BOOLEAN, has_id : BOOLEAN, lastUpdateId : Ids \cup {NoId},
            has_bids : BOOLEAN, bids : SnapLists,
            has_asks : BOOLEAN, asks : SnapLists] :
        /\ (r.has_id <=> r.lastUpdateId # NoId)
        /\ (~r.has_bids => r.bids = <<>>)
        /\ (~r.has_asks => r.asks = <<>>)
        /\ (~r.fetch_ok => ~r.has_id /\ ~r.has_bids /\ ~r.has_asks)}

\* The book content is followed on s1.  The stream of s2 carries updates
\* with empty level lists and its snapshots are empty: s2 is there for what
\* one symbol's handling does to another symbol's synchronisation state.
PlainUpdates == {m \in DepthUpdates : m.b = <<>> /\ m.a = <<>>}
PlainResponses == {r \in SnapshotResponses : r.bids = <<>> /\ r.asks = <<>>}
DepthUpdatesOf(s) == IF s = "s1" THEN DepthUpdates ELSE PlainUpdates
SnapshotResponsesOf(s) == IF s = "s1" THEN SnapshotResponses ELSE PlainResponses

\* a level2 message of Poloniex futures: one change, "price,side,amount"
Level2Updates == [sequence : Ids, price : Prices, side : {"buy", "sell"}, amount : Sizes]

\* what the REST level2/depth request comes back with
PoloSnapshotResponses ==
    {r \in [fetch_ok : BOOLEAN, has_seq : BOOLEAN, sequence : Ids \cup {NoId},
            has_bids : BOOLEAN, bids : SnapLists,
            has_asks : BOOLEAN, asks : SnapLists] :
        /\ (r.has_seq <=> r.sequence # NoId)
        /\ (~r.has_bids => r.bids = <<>>)
        /\ (~r.has_asks => r.asks = <<>>)
        /\ (~r.fetch_ok => ~r.has_seq /\ ~r.has_bids /\ ~r.has_asks)}

\* as for Binance, s2 carries changes that leave its (empty) book as it is
PlainLevel2 == {m \in Level2Updates : m.amount = 0 /\ m.side = "buy"}
PlainPoloResponses == {r \in PoloSnapshotResponses : r.bids = <<>> /\ r.asks = <<>>}
Level2UpdatesOf(s) == IF s = "s1" THEN Level2Updates ELSE PlainLevel2
PoloSnapshotResponsesOf(s) ==
    IF s = "s1" THEN PoloSnapshotResponses ELSE PlainPoloResponses

\* -------------------------------------------------------------- state
VARIABLES
    feed,            \* "binance" or "poloniex_futures": the adapter class
    forced,          \* Binance.forced: defaultdict(bool)
    l2_book,         \* Binance.l2_book
    last_update_id,  \* Binance.last_update_id
    pc,              \* per connection: "idle", or the symbol whose snapshot
                     \* request is in flight (the await in _snapshot)
    _l2_book,        \* PoloniexFutures._l2_book
    seq_no,          \* PoloniexFutures.seq_no
    out,             \* the events the last step handed to book_callback
    last,            \* what the last step was and what it decided
    stale,           \* the connections whose snapshot request was in flight
                     \* when the feed was reset (history, read by no handler)
    subscription,    \* what the feed was constructed with
    address          \* Binance.address, the result of _address()

vars == <<feed, forced, l2_book, last_update_id, pc, _l2_book, seq_no, out, last,
          stale, subscription, address>>

\* b and a are the changes the apply loop of _book went through (none when
\* the update was skipped), shape is the shape of a message that was not
\* dispatched to a channel handler, limit is the depth a snapshot request
\* asks for
Step(op, sym, res, first, prev, U, u, nfetch) ==
    [op |-> op, sym |-> sym, res |-> res, first |-> first, prev |-> prev,
     U |-> U, u |-> u, nfetch |-> nfetch, b |-> <<>>, a |-> <<>>, shape |-> "none",
     limit |-> NoDepth]

Applied(step, res, b, a) ==
    IF res = "applied" THEN [step EXCEPT !.b = b, !.a = a] ELSE step

NoStep == Step("none", "none", "none", FALSE, NoId, NoId, NoId, 0)

\* no handler step is waiting for its events to be delivered
Quiet == last = NoStep

Event(kind, sym, isForced, delta) ==
    [kind |-> kind, sym |-> sym, forced |-> isForced, delta |-> delta]

\* ------------------------------------------------------------ Binance
BState == [forced |-> forced, l2_book |-> l2_book, last_update_id |-> last_update_id]

\* (mutation) the dictionaries are replaced, the forced marks are not
Binance_reset_keepforced(st) ==
    [forced |-> st.forced,
     l2_book |-> [s \in Syms |-> NoBook],
     last_update_id |-> [s \in Syms |-> NoId]]

\* Binance._reset: every dictionary of the feed is replaced by an empty one
Binance_reset(st) ==
    [forced |-> [s \in Syms |-> FALSE],
     l2_book |-> [s \in Syms |-> NoBook],
     last_update_id |-> [s \in Syms |-> NoId]]

\* the loop of _snapshot over one side of the response: entries are stored
\* in order, and an entry that does not decode raises out of the loop
RECURSIVE Binance_snapshot_side(_, _)
Binance_snapshot_side(levels, updates) ==
    IF updates = <<>> THEN [levels |-> levels, ok |-> TRUE]
    ELSE LET h == Head(updates) IN
         IF h.price = Undecodable THEN [levels |-> levels, ok |-> FALSE]
         ELSE Binance_snapshot_side([levels EXCEPT ![h.price] = h.amount], Tail(updates))

\* Binance._snapshot from the response on (lines 171-180)
Binance_snapshot(st, pair, resp) ==
    IF ~resp.fetch_ok \/ ~resp.has_id THEN [st |-> st, raised |-> TRUE]
    ELSE
      LET st1 == [st EXCEPT !.last_update_id[pair] = resp.lastUpdateId,
                            !.l2_book[pair] = [bid |-> EmptySide, ask |-> EmptySide]]
      IN IF ~resp.has_bids THEN [st |-> st1, raised |-> TRUE]
         ELSE
           LET bs == Binance_snapshot_side(EmptySide, resp.bids)
               st2 == [st1 EXCEPT !.l2_book[pair].bid = bs.levels]
           IN IF ~bs.ok \/ ~resp.has_asks THEN [st |-> st2, raised |-> TRUE]
              ELSE
                LET as == Binance_snapshot_side(EmptySide, resp.asks)
                    st3 == [st2 EXCEPT !.l2_book[pair].ask = as.levels]
                IN [st |-> st3, raised |-> ~as.ok]

\* (mutation) the gap is logged and the update skipped, nothing is reset
Binance_on_gap_keep(st, pair) == st

\* (mutation) the window test with U <= lastUpdateId in place of U <= lastUpdateId + 1
WindowFirst_exclusive(lu, msg) == msg.U <= lu /\ lu + 1 <= msg.u

\* (mutation) a later event is taken when it starts at or before lastUpdateId + 1
SuccessorNext_overlap(lu, msg) == lu + 1 >= msg.U

\* (mutation) an event that ends exactly at lastUpdateId is not stale
StaleFirst_strict(lu, msg) == msg.u < lu

\* line 186: the event lies entirely at or before the snapshot
StaleFirst(lu, msg) == msg.u <= lu

\* line 188: the first event after the snapshot straddles lastUpdateId + 1
WindowFirst(lu, msg) == msg.U <= lu + 1 /\ lu + 1 <= msg.u

\* line 191: a later event starts right after the previous one
SuccessorNext(lu, msg) == lu + 1 = msg.U

\* the else branch of _check_update_id (lines 193-196)
Binance_on_gap(st, pair) == Binance_reset(st)

\* (mutation) a stale event uses up the mark of the first event
Binance_check_update_id_consume(st, pair, msg) ==
    LET first == ~st.forced[pair]
        lu == st.last_update_id[pair]
    IN IF first /\ msg.u <= lu
         THEN [st |-> [st EXCEPT !.forced[pair] = TRUE],
               skip_update |-> TRUE, forced |-> first, gap |-> FALSE]
       ELSE IF first /\ msg.U <= lu + 1 /\ lu + 1 <= msg.u
         THEN [st |-> [st EXCEPT !.last_update_id[pair] = msg.u, !.forced[pair] = TRUE],
               skip_update |-> FALSE, forced |-> first, gap |-> FALSE]
       ELSE IF ~first /\ lu + 1 = msg.U
         THEN [st |-> [st EXCEPT !.last_update_id[pair] = msg.u],
               skip_update |-> FALSE, forced |-> first, gap |-> FALSE]
       ELSE [st |-> Binance_reset(st), skip_update |-> TRUE, forced |-> first,
             gap |-> TRUE]

\* Binance._check_update_id; first is the local "forced"
Binance_check_update_id(st, pair, msg) ==
    LET first == ~st.forced[pair]
        lu == st.last_update_id[pair]
    IN IF first /\ StaleFirst(lu, msg)
         THEN [st |-> st, skip_update |-> TRUE, forced |-> first, gap |-> FALSE]
       ELSE IF first /\ WindowFirst(lu, msg)
         THEN [st |-> [st EXCEPT !.last_update_id[pair] = msg.u, !.forced[pair] = TRUE],
               skip_update |-> FALSE, forced |-> first, gap |-> FALSE]
       ELSE IF ~first /\ SuccessorNext(lu, msg)
         THEN [st |-> [st EXCEPT !.last_update_id[pair] = msg.u],
               skip_update |-> FALSE, forced |-> first, gap |-> FALSE]
       ELSE [st |-> Binance_on_gap(st, pair), skip_update |-> TRUE, forced |-> first,
             gap |-> TRUE]

\* (mutation) a zero amount is stored like any other amount
RECURSIVE Binance_apply_side_keepzero(_, _, _)
Binance_apply_side_keepzero(levels, delta, updates) ==
    IF updates = <<>> THEN [levels |-> levels, delta |-> delta]
    ELSE LET h == Head(updates) IN
         Binance_apply_side_keepzero([levels EXCEPT ![h.price] = h.amount],
                                     Append(delta, h), Tail(updates))

\* (mutation) a removal is reported whether or not the level was there
RECURSIVE Binance_apply_side_alwaysdelta(_, _, _)
Binance_apply_side_alwaysdelta(levels, delta, updates) ==
    IF updates = <<>> THEN [levels |-> levels, delta |-> delta]
    ELSE LET h == Head(updates) IN
         IF h.amount = 0
           THEN Binance_apply_side_alwaysdelta([levels EXCEPT ![h.price] = NoLevel],
                                               Append(delta, h), Tail(updates))
           ELSE Binance_apply_side_alwaysdelta([levels EXCEPT ![h.price] = h.amount],
                                               Append(delta, h), Tail(updates))

\* (mutation) a new amount is reported but not written to the book
RECURSIVE Binance_apply_side_nocommit(_, _, _)
Binance_apply_side_nocommit(levels, delta, updates) ==
    IF updates = <<>> THEN [levels |-> levels, delta |-> delta]
    ELSE LET h == Head(updates) IN
         IF h.amount = 0
           THEN IF levels[h.price] # NoLevel
                  THEN Binance_apply_side_nocommit([levels EXCEPT ![h.price] = NoLevel],
                                                   Append(delta, h), Tail(updates))
                  ELSE Binance_apply_side_nocommit(levels, delta, Tail(updates))
           ELSE Binance_apply_side_nocommit(levels, Append(delta, h), Tail(updates))

\* (mutation) a removal is reported but the level stays in the book
RECURSIVE Binance_apply_side_nodelete(_, _, _)
Binance_apply_side_nodelete(levels, delta, updates) ==
    IF updates = <<>> THEN [levels |-> levels, delta |-> delta]
    ELSE LET h == Head(updates) IN
         IF h.amount = 0
           THEN IF levels[h.price] # NoLevel
                  THEN Binance_apply_side_nodelete(levels, Append(delta, h), Tail(updates))
                  ELSE Binance_apply_side_nodelete(levels, delta, Tail(updates))
           ELSE Binance_apply_side_nodelete([levels EXCEPT ![h.price] = h.amount],
                                            Append(delta, h), Tail(updates))

\* the inner loop of _book over one side of the update (lines 236-246)
RECURSIVE Binance_apply_side(_, _, _)
Binance_apply_side(levels, delta, updates) ==
    IF updates = <<>> THEN [levels |-> levels, delta |-> delta]
    ELSE LET h == Head(updates) IN
         IF h.amount = 0
           THEN IF levels[h.price] # NoLevel
                  THEN Binance_apply_side([levels EXCEPT ![h.price] = NoLevel],
                                          Append(delta, h), Tail(updates))
                  ELSE Binance_apply_side(levels, delta, Tail(updates))
           ELSE Binance_apply_side([levels EXCEPT ![h.price] = h.amount],
                                   Append(delta, h), Tail(updates))

\* Binance._book from _check_update_id on (lines 228-248): the state after,
\* the events handed to book_callback, and what was decided
Binance_book_checked(st, pair, msg) ==
    LET chk == Binance_check_update_id(st, pair, msg)
        prev == st.last_update_id[pair]
    IN IF chk.skip_update
         THEN [st |-> chk.st, out |-> <<>>,
               res |-> IF chk.gap THEN "gap" ELSE "skipped",
               first |-> chk.forced, prev |-> prev]
         ELSE LET b == Binance_apply_side(chk.st.l2_book[pair].bid, <<>>, msg.b)
                  a == Binance_apply_side(chk.st.l2_book[pair].ask, <<>>, msg.a)
                  st2 == [chk.st EXCEPT !.l2_book[pair] = [bid |-> b.levels, ask |-> a.levels]]
              IN [st |-> st2,
                  out |-> <<Event("book", pair, chk.forced,
                                  [bid |-> b.delta, ask |-> a.delta])>>,
                  res |-> "applied", first |-> chk.forced, prev |-> prev]

SetBinance(st) ==
    /\ forced' = st.forced
    /\ l2_book' = st.l2_book
    /\ last_update_id' = st.last_update_id

\* the connections other than c that await a snapshot response
InFlightBut(c) == {d \in Conns \ {c} : pc[d] \in Syms}

\* _book for a symbol that has a book: one atomic step (lines 222-248)
BinanceBook(c, s) ==
    /\ feed = "binance"
    /\ Quiet
    /\ pc[c] = "idle"
    /\ l2_book[s] # NoBook
    /\ \E msg \in DepthUpdatesOf(s) :
         LET r == Binance_book_checked(BState, s, msg) IN
         /\ SetBinance(r.st)
         /\ out' = r.out
         /\ last' = Applied(Step("book", s, r.res, r.first, r.prev, msg.U, msg.u, 0),
                            r.res, msg.b, msg.a)
         /\ stale' = IF r.res = "gap" THEN stale \cup InFlightBut(c) ELSE stale
    /\ UNCHANGED <<feed, pc, _l2_book, seq_no, subscription, address>>

\* Binance.valid_depths (line 26)
valid_depths == <<5, 10, 20, 50, 100, 500, 1000, 5000>>

\* the depth asked for when self.max_depth is unset (line 163)
DefaultDepth == 1000

\* the loop of lines 165-167: it goes through all of valid_depths, and
\* compares each with max_depth as it is by then
RECURSIVE Binance_depth_loop(_, _)
Binance_depth_loop(max_depth, i) ==
    IF i > Len(valid_depths) THEN max_depth
    ELSE IF valid_depths[i] > max_depth
      THEN Binance_depth_loop(valid_depths[i], i + 1)
    ELSE Binance_depth_loop(max_depth, i + 1)

\* lines 163-169: the limit of the depth request
Binance_snapshot_depth(configured) ==
    LET max_depth == IF configured # NoDepth THEN configured ELSE DefaultDepth
    IN IF \E i \in DOMAIN valid_depths : valid_depths[i] = max_depth
         THEN max_depth
         ELSE Binance_depth_loop(max_depth, 1)

\* _book for a symbol that has no book, up to the await of the depth
\* request in _snapshot (lines 222-226, 162-170)
BinanceBookFetch(c, s) ==
    /\ feed = "binance"
    /\ Quiet
    /\ pc[c] = "idle"
    /\ l2_book[s] = NoBook
    /\ pc' = [pc EXCEPT ![c] = s]
    /\ out' = <<>>
    /\ last' = [Step("book", s, "fetching", FALSE, NoId, NoId, NoId, 1)
                   EXCEPT !.limit = Binance_snapshot_depth(subscription.max_depth)]
    /\ UNCHANGED <<feed, forced, l2_book, last_update_id, _l2_book, seq_no,
                   stale, subscription, address>>

\* the rest of that _book once the response is there (lines 171-180, then
\* 228-248).  The update being handled is read only here, so it is drawn here.
BinanceSnapshotReturn(c) ==
    /\ feed = "binance"
    /\ Quiet
    /\ pc[c] \in Syms
    /\ \E resp \in SnapshotResponsesOf(pc[c]) :
         LET s == pc[c]
             snap == Binance_snapshot(BState, s, resp)
         IN IF snap.raised
              THEN /\ SetBinance(snap.st)
                   /\ out' = <<>>
                   /\ last' = Step("resume", s, "raised", FALSE, NoId, NoId, NoId, 0)
                   /\ stale' = stale \ {c}
              ELSE \E msg \in DepthUpdatesOf(s) :
                   LET r == Binance_book_checked(snap.st, s, msg) IN
                   /\ SetBinance(r.st)
                   /\ out' = r.out
                   /\ last' = Applied(Step("resume", s, r.res, r.first, r.prev,
                                           msg.U, msg.u, 0),
                                      r.res, msg.b, msg.a)
                   /\ stale' = IF r.res = "gap" THEN (stale \ {c}) \cup InFlightBut(c)
                               ELSE stale \ {c}
    /\ pc' = [pc EXCEPT ![c] = "idle"]
    /\ UNCHANGED <<feed, _l2_book, seq_no, subscription, address>>

\* Binance.subscribe: called by the connection's own task on every
\* (re)connect, so never while that task awaits a snapshot
BinanceSubscribe(c) ==
    /\ feed = "binance"
    /\ Quiet
    /\ pc[c] = "idle"
    /\ SetBinance(IF ConnType(c) # "https" THEN Binance_reset(BState) ELSE BState)
    /\ out' = <<>>
    /\ last' = Step("subscribe", c, "reset", FALSE, NoId, NoId, NoId, 0)
    /\ stale' = IF ConnType(c) # "https" THEN stale \cup InFlightBut(c) ELSE stale
    /\ UNCHANGED <<feed, pc, _l2_book, seq_no, subscription, address>>

\* the shapes of a decoded websocket frame that message_handler dispatches
\* to no channel handler
BinanceShapes == {"no_stream", "no_data", "unknown_event", "no_discriminator"}

\* Binance.message_handler on such a frame (lines 272-293): msg['stream']
\* and msg['data'] are subscripted, the event tag and the key 'A' are tested
Binance_message_handler(shape) ==
    IF shape \in {"no_stream", "no_data"} THEN "error" ELSE "dropped"

BinanceMessage(c) ==
    /\ feed = "binance"
    /\ Quiet
    /\ pc[c] = "idle"
    /\ ConnType(c) = "wss"
    /\ \E shape \in BinanceShapes :
         last' = [Step("message", "none", Binance_message_handler(shape),
                       FALSE, NoId, NoId, NoId, 0) EXCEPT !.shape = shape]
    /\ out' = <<>>
    /\ UNCHANGED <<feed, forced, l2_book, last_update_id, pc, _l2_book, seq_no,
                   stale, subscription, address>>

\* the await of book_callback ends and message_handler returns to the read
\* loop of its connection: the events are with the callbacks
Deliver ==
    /\ ~Quiet
    /\ out' = <<>>
    /\ last' = NoStep
    /\ UNCHANGED <<feed, forced, l2_book, last_update_id, pc, _l2_book, seq_no,
                   stale, subscription, address>>

BinanceNext ==
    \/ \E c \in Conns : \E s \in Owned(c) : BinanceBook(c, s)
    \/ \E c \in Conns : \E s \in Owned(c) : BinanceBookFetch(c, s)
    \/ \E c \in Conns : BinanceSnapshotReturn(c)
    \/ \E c \in Conns : BinanceSubscribe(c)
    \/ \E c \in Conns : BinanceMessage(c)

\* ---------------------------------------------------- PoloniexFutures
PState == [_l2_book |-> _l2_book, seq_no |-> seq_no]

\* PoloniexFutures.__reset (lines 59-61)
PoloniexFutures__reset(st) ==
    [_l2_book |-> [s \in Syms |-> NoBook], seq_no |-> [s \in Syms |-> NoId]]

\* self._reset(), which _check_update_id calls on a gap: the class defines
\* only __reset, so this is the method of that name it inherits.  Its code
\* is not in the files at hand; it is the synchronizer's reset() for all
\* symbols of the connection, as called without a symbol.
PoloniexFutures_reset(st) ==
    [_l2_book |-> [s \in Syms |-> NoBook], seq_no |-> [s \in Syms |-> NoId]]

\* Feed.book_callback, as far as the book goes: the sequence_number it is
\* called with is stored on the OrderBook before the callbacks get the book
Feed_book_callback(book, sequence_number) ==
    [book EXCEPT !.sequence_number = sequence_number]

\* OrderBook(self.id, symbol, max_depth=...): empty, no sequence number yet
NewOrderBook == [bids |-> EmptySide, asks |-> EmptySide, sequence_number |-> NoId]

\* the dict comprehensions of _snapshot (lines 153-160): built whole before
\* they are assigned, a later entry for a price replacing an earlier one
RECURSIVE Polo_snapshot_side(_, _)
Polo_snapshot_side(levels, updates) ==
    IF updates = <<>> THEN [levels |-> levels, ok |-> TRUE]
    ELSE LET h == Head(updates) IN
         IF h.price = Undecodable THEN [levels |-> EmptySide, ok |-> FALSE]
         ELSE Polo_snapshot_side([levels EXCEPT ![h.price] = h.amount], Tail(updates))

\* PoloniexFutures._snapshot (lines 143-165)
PoloniexFutures_snapshot(st, symbol, resp) ==
    IF ~resp.fetch_ok THEN [st |-> st, raised |-> TRUE, out |-> <<>>]
    ELSE
      LET st1 == [st EXCEPT !._l2_book[symbol] = NewOrderBook]
      IN IF ~resp.has_seq THEN [st |-> st1, raised |-> TRUE, out |-> <<>>]
         ELSE
           LET st2 == [st1 EXCEPT !.seq_no[symbol] = resp.sequence]
               bs == Polo_snapshot_side(EmptySide, resp.bids)
           IN IF ~resp.has_bids \/ ~bs.ok THEN [st |-> st2, raised |-> TRUE, out |-> <<>>]
              ELSE
                LET st3 == [st2 EXCEPT !._l2_book[symbol].bids = bs.levels]
                    as == Polo_snapshot_side(EmptySide, resp.asks)
                IN IF ~resp.has_asks \/ ~as.ok
                     THEN [st |-> st3, raised |-> TRUE, out |-> <<>>]
                     ELSE
                       LET st4 == [st3 EXCEPT !._l2_book[symbol].asks = as.levels]
                           st5 == [st4 EXCEPT !._l2_book[symbol] =
                                      Feed_book_callback(@, resp.sequence)]
                       IN [st |-> st5, raised |-> FALSE,
                           out |-> <<Event("snapshot", symbol, FALSE, EmptyDelta)>>]

\* (mutation) only an older sequence is stale, the last one applied is not
PoloStale_strict(sequence_number, seq, msg) == sequence_number = NoId \/ msg.sequence < seq

\* (mutation) any newer sequence is taken as the successor
PoloSuccessor_any(seq, msg) == msg.sequence >= seq + 1

\* lines 168-169: nothing to compare with yet, or not newer than the last one
PoloStale(sequence_number, seq, msg) == sequence_number = NoId \/ msg.sequence <= seq

\* line 171: the successor of the last applied update
PoloSuccessor(seq, msg) == msg.sequence = seq + 1

\* the else branch of _check_update_id (lines 174-178)
PoloniexFutures_on_gap(st, symbol) == PoloniexFutures_reset(st)

\* PoloniexFutures._check_update_id
PoloniexFutures_check_update_id(st, symbol, msg) ==
    IF PoloStale(st._l2_book[symbol].sequence_number, st.seq_no[symbol], msg)
      THEN [st |-> st, skip_update |-> TRUE, gap |-> FALSE]
    ELSE IF PoloSuccessor(st.seq_no[symbol], msg)
      THEN [st |-> [st EXCEPT !.seq_no[symbol] = msg.sequence],
            skip_update |-> FALSE, gap |-> FALSE]
    ELSE [st |-> PoloniexFutures_on_gap(st, symbol), skip_update |-> TRUE, gap |-> TRUE]

\* the change of one level2 message applied to the book (lines 206-217)
PoloniexFutures_apply(book, msg) ==
    LET side == IF msg.side = "buy" THEN "bids" ELSE "asks"
        key == IF msg.side = "buy" THEN "bid" ELSE "ask"
        ch == [price |-> msg.price, amount |-> msg.amount]
    IN IF msg.amount = 0
         THEN IF book[side][msg.price] # NoLevel
                THEN [book |-> [book EXCEPT ![side][msg.price] = NoLevel],
                      delta |-> [EmptyDelta EXCEPT ![key] = <<ch>>]]
                ELSE [book |-> book, delta |-> EmptyDelta]
         ELSE [book |-> [book EXCEPT ![side][msg.price] = msg.amount],
               delta |-> [EmptyDelta EXCEPT ![key] = <<ch>>]]

\* PoloniexFutures._book from _check_update_id on (lines 198-224)
PoloniexFutures_book_checked(st, symbol, msg) ==
    LET chk == PoloniexFutures_check_update_id(st, symbol, msg)
    IN IF chk.skip_update
         THEN [st |-> chk.st, out |-> <<>>,
               res |-> IF chk.gap THEN "gap" ELSE "skipped"]
         ELSE LET ap == PoloniexFutures_apply(chk.st._l2_book[symbol], msg)
                  bk == Feed_book_callback(ap.book, msg.sequence)
              IN [st |-> [chk.st EXCEPT !._l2_book[symbol] = bk],
                  out |-> <<Event("delta", symbol, FALSE, ap.delta)>>,
                  res |-> "applied"]

SetPolo(st) ==
    /\ _l2_book' = st._l2_book
    /\ seq_no' = st.seq_no

\* the one change of a level2 message, as the lists the apply step went through
PoloChange(msg) ==
    LET ch == <<[price |-> msg.price, amount |-> msg.amount]>>
    IN IF msg.side = "buy" THEN [b |-> ch, a |-> <<>>] ELSE [b |-> <<>>, a |-> ch]

\* PoloniexFutures._book (lines 193-224).  The feed has one websocket
\* connection, whose task awaits the snapshot inside the handler: nothing
\* else of the feed runs in between, and the handler is one step.
PoloBook(s) ==
    /\ feed = "poloniex_futures"
    /\ Quiet
    /\ \E msg \in Level2UpdatesOf(s) :
         IF _l2_book[s] # NoBook
           THEN LET r == PoloniexFutures_book_checked(PState, s, msg) IN
                /\ SetPolo(r.st)
                /\ out' = r.out
                /\ last' = Applied(Step("book", s, r.res, FALSE, seq_no[s],
                                        msg.sequence, msg.sequence, 0),
                                   r.res, PoloChange(msg).b, PoloChange(msg).a)
           ELSE \E resp \in PoloSnapshotResponsesOf(s) :
                LET snap == PoloniexFutures_snapshot(PState, s, resp) IN
                IF snap.raised
                  THEN /\ SetPolo(snap.st)
                       /\ out' = snap.out
                       /\ last' = Step("book", s, "raised", FALSE, NoId, NoId, NoId, 1)
                  ELSE LET r == PoloniexFutures_book_checked(snap.st, s, msg) IN
                       /\ SetPolo(r.st)
                       /\ out' = snap.out \o r.out
                       /\ last' = Applied(Step("book", s, r.res, FALSE, snap.st.seq_no[s],
                                               msg.sequence, msg.sequence, 1),
                                          r.res, PoloChange(msg).b, PoloChange(msg).a)
    /\ UNCHANGED <<feed, forced, l2_book, last_update_id, pc, stale, subscription, address>>

\* PoloniexFutures.subscribe (line 249; the subscribe messages it then
\* writes to the connection change nothing of the feed)
PoloSubscribe ==
    /\ feed = "poloniex_futures"
    /\ Quiet
    /\ SetPolo(PoloniexFutures__reset(PState))
    /\ out' = <<>>
    /\ last' = Step("subscribe", "ws", "reset", FALSE, NoId, NoId, NoId, 0)
    /\ UNCHANGED <<feed, forced, l2_book, last_update_id, pc, stale, subscription, address>>

\* the shapes of a decoded frame that is neither a control message nor a
\* message of a subscribed subject
PoloShapes == {"unknown_subject", "no_type_no_subject"}

\* PoloniexFutures.message_handler on such a frame (lines 227-246): type
\* and subject are read with msg.get, and the last else logs a warning
PoloniexFutures_message_handler(shape) == "dropped"

PoloMessage ==
    /\ feed = "poloniex_futures"
    /\ Quiet
    /\ \E shape \in PoloShapes :
         last' = [Step("message", "none", PoloniexFutures_message_handler(shape),
                       FALSE, NoId, NoId, NoId, 0) EXCEPT !.shape = shape]
    /\ out' = <<>>
    /\ UNCHANGED <<feed, forced, l2_book, last_update_id, pc, _l2_book, seq_no,
                   stale, subscription, address>>

PoloNext ==
    \/ \E s \in Syms : PoloBook(s)
    \/ PoloSubscribe
    \/ PoloMessage

\* ----------------------------------------------------- Binance._address
\* "if counter == 200" (line 57): the streams one connection may carry
StreamLimit == 200

\* how many pairs a channel is subscribed with
PairCounts == {0, 1, 50, 199, 200, 201, 250}

\* self.subscription: channel -> pairs, here the number of pairs of each
\* channel; the pairs of a channel are distinct exchange symbols, which
\* lower() keeps distinct, and are named 1..n
Subscriptions == [depth : PairCounts, open_interest : {0, 1}, aggTrade : PairCounts]

\* the order in which the dictionary yields its channels
Channels == <<"depth", "open_interest", "aggTrade">>

PairsOf(sub, chan) == [i \in 1..sub[chan] |-> [chan |-> chan, pair |-> i]]

\* the (channel, pair) entries in the order of the two nested loops
SubscribedPairs(sub) ==
    PairsOf(sub, Channels[1]) \o PairsOf(sub, Channels[2]) \o PairsOf(sub, Channels[3])

IsStream(entry) == entry.chan # "open_interest"

\* lines 49-54: the streams the loops get to, in order; the channel
\* OPEN_INTEREST is passed over before any of its pairs is looked at
Streams(sub) == SelectSeq(SubscribedPairs(sub), IsStream)

\* ret[key] = address on a Python dict
DictSet(ret, key, addr) ==
    {t \in ret : t.key # key} \cup {[key |-> key, address |-> addr]}

\* (mutation) the connection is closed off one stream late: counter > 200
RECURSIVE Binance_address_loop_late(_, _)
Binance_address_loop_late(streams, ret) ==
    IF Len(streams) >= StreamLimit + 1
      THEN LET addr == SubSeq(streams, 1, StreamLimit + 1) IN
           Binance_address_loop_late(SubSeq(streams, StreamLimit + 2, Len(streams)),
                                     DictSet(ret, addr[StreamLimit + 1], addr))
      ELSE [ret |-> ret, counter |-> Len(streams), address |-> streams]

\* lines 55-60 over the streams that are left: an address is a sequence of
\* streams; one is filed under its last stream each time the counter gets
\* to the limit, and counter and address start again.  One round of the
\* recursion is the 200 passes of the loop that fill one address.
RECURSIVE Binance_address_loop(_, _)
Binance_address_loop(streams, ret) ==
    IF Len(streams) >= StreamLimit
      THEN LET addr == SubSeq(streams, 1, StreamLimit) IN
           Binance_address_loop(SubSeq(streams, StreamLimit + 1, Len(streams)),
                                DictSet(ret, addr[StreamLimit], addr))
      ELSE [ret |-> ret, counter |-> Len(streams), address |-> streams]

\* (mutation) the address under construction is filed whatever the counter
Binance_address_return_always(r, streams) ==
    IF r.ret = {}
      THEN IF r.address = <<>> THEN [kind |-> "None"]
           ELSE [kind |-> "str", address |-> r.address]
    ELSE [kind |-> "dict", ret |-> DictSet(r.ret, streams[Len(streams)], r.address)]

\* lines 62-68; "stream" is still the last stream the loop got to
Binance_address_return(r, streams) ==
    IF r.ret = {}
      THEN IF r.address = <<>> THEN [kind |-> "None"]
           ELSE [kind |-> "str", address |-> r.address]
    ELSE IF r.counter > 0
      THEN [kind |-> "dict", ret |-> DictSet(r.ret, streams[Len(streams)], r.address)]
    ELSE [kind |-> "dict", ret |-> r.ret]

Binance_address(sub) ==
    Binance_address_return(Binance_address_loop(Streams(sub), {}), Streams(sub))

\* self.address before __init__ has set it
NotBuilt == [kind |-> "unset"]

\* In the behaviours of Spec the feed is already constructed and connected:
\* its subscription is one whose streams _address spread over the websocket
\* connections of Conns, s1 and s2 being a stream of c1 and one of c2.
\* Its max_depth is left unset.
Sharded == [kind |-> "sharded", max_depth |-> NoDepth]
Connected == [kind |-> "connected"]

\* Binance.__init__ (lines 28-33)
BinanceConstruct ==
    /\ feed = "binance"
    /\ address = NotBuilt
    /\ address' = Binance_address(subscription)
    /\ SetBinance(Binance_reset(BState))
    /\ UNCHANGED <<feed, pc, _l2_book, seq_no, out, last, stale, subscription>>

\* ---------------------------------------------------------------- spec
Init ==
    /\ feed \in {"binance", "poloniex_futures"}
    /\ forced = [s \in Syms |-> FALSE]
    /\ l2_book = [s \in Syms |-> NoBook]
    /\ last_update_id = [s \in Syms |-> NoId]
    /\ pc = [c \in Conns |-> "idle"]
    /\ _l2_book = [s \in Syms |-> NoBook]
    /\ seq_no = [s \in Syms |-> NoId]
    /\ out = <<>>
    /\ last = NoStep
    /\ stale = {}
    /\ subscription = Sharded
    /\ address = Connected

Next == BinanceNext \/ PoloNext \/ Deliver

Spec == Init /\ [][Next]_vars

\* the construction of a Binance feed, for every subscription
AddressInit ==
    /\ feed = "binance"
    /\ forced = [s \in Syms |-> FALSE]
    /\ l2_book = [s \in Syms |-> NoBook]
    /\ last_update_id = [s \in Syms |-> NoId]
    /\ pc = [c \in Conns |-> "idle"]
    /\ _l2_book = [s \in Syms |-> NoBook]
    /\ seq_no = [s \in Syms |-> NoId]
    /\ out = <<>>
    /\ last = NoStep
    /\ stale = {}
    /\ subscription \in Subscriptions
    /\ address = NotBuilt

AddressNext == BinanceConstruct

AddressSpec == AddressInit /\ [][AddressNext]_vars

\* what max_depth a feed may be constructed with: unset, or any depth up to
\* one past the largest valid one
MaxDepths == {NoDepth} \cup (1..(valid_depths[Len(valid_depths)] + 1))

\* the snapshot requests of a connected Binance feed, for every max_depth
DepthInit ==
    /\ feed = "binance"
    /\ forced = [s \in Syms |-> FALSE]
    /\ l2_book = [s \in Syms |-> NoBook]
    /\ last_update_id = [s \in Syms |-> NoId]
    /\ pc = [c \in Conns |-> "idle"]
    /\ _l2_book = [s \in Syms |-> NoBook]
    /\ seq_no = [s \in Syms |-> NoId]
    /\ out = <<>>
    /\ last = NoStep
    /\ stale = {}
    /\ subscription \in [kind : {"sharded"}, max_depth : MaxDepths]
    /\ address = Connected

DepthNext ==
    \/ \E c \in Conns : \E s \in Owned(c) : BinanceBookFetch(c, s)
    \/ Deliver

DepthSpec == DepthInit /\ [][DepthNext]_vars

\* =============================================================== claims
\* a step in which Binance._check_update_id ran on an update
BinanceChecked ==
    /\ feed = "binance"
    /\ last.op \in {"book", "resume"}
    /\ last.res \in {"applied", "skipped", "gap"}

\* a step in which PoloniexFutures._check_update_id ran on an update
PoloChecked ==
    /\ feed = "poloniex_futures"
    /\ last.op = "book"
    /\ last.res \in {"applied", "skipped", "gap"}

NoDelta(events) == \A i \in 1..Len(events) : events[i].kind # "delta"

\* the window policy's gap: the first update after a snapshot starts past
\* lastSequence + 1 (one that ends at or before lastSequence is stale, not
\* a gap); a later update starts anywhere but at lastSequence + 1
WindowGap(first, prev, U, u) ==
    IF first THEN u > prev /\ ~(U <= prev + 1 /\ prev + 1 <= u)
    ELSE U # prev + 1

\* C1: (Binance, window policy) an update that is discontinuous with
\* lastSequence is discarded: no event is emitted, the symbol's book is
\* destroyed and the symbol is UNSYNCED (no book, no lastSequence, forced
\* unset); and a delta received for a symbol that has no book issues exactly
\* one snapshot fetch, which is then in flight on the symbol's connection.
C1_GapResync ==
    [][ /\ (BinanceChecked' /\ WindowGap(last'.first, last'.prev, last'.U, last'.u))
            => /\ last'.res = "gap"
               /\ out' = <<>>
               /\ l2_book'[last'.sym] = NoBook
               /\ last_update_id'[last'.sym] = NoId
               /\ ~forced'[last'.sym]
        /\ \A c \in Conns : \A s \in Owned(c) :
              (feed = "binance" /\ l2_book[s] = NoBook /\ last'.op = "book" /\ last'.sym = s)
                => (last'.nfetch = 1 /\ pc[c] = "idle" /\ pc'[c] = s)
      ]_vars

\* a synchronised symbol that had an update accepted has just received one
\* that starts past lastSequence + 1 and lost its book; the next delta for
\* it can only start a snapshot fetch
C1_Witness ==
    /\ BinanceChecked
    /\ last.op = "book"
    /\ ~last.first
    /\ last.U > last.prev + 1
    /\ last.res = "gap"
    /\ WindowGap(last.first, last.prev, last.U, last.u)
    /\ out = <<>>
    /\ l2_book[last.sym] = NoBook

\* C2: (Binance) while the symbol's forced flag is unset, an update [U, u]
\* is accepted exactly when U <= lastSequence + 1 <= u, and on acceptance
\* lastSequence becomes u.
C2_FirstUpdateWindow ==
    (BinanceChecked /\ last.first)
      => /\ (last.res = "applied") <=> (last.U <= last.prev + 1 /\ last.prev + 1 <= last.u)
         /\ (last.res = "applied") => last_update_id[last.sym] = last.u

\* lastSequence = 150, U = 148, u = 155 scaled to 1, 0, 3: accepted, and
\* lastSequence is now u
C2_Witness ==
    /\ BinanceChecked /\ last.first
    /\ last.res = "applied"
    /\ last.prev = 1 /\ last.U = 0 /\ last.u = 3
    /\ last_update_id[last.sym] = 3

\* C3: (Binance) while the symbol's forced flag is set, an update is
\* accepted only if U = lastSequence + 1, and then lastSequence becomes u;
\* every other update (a stale or duplicate one too) is declared a gap.
C3_LaterUpdateSuccessor ==
    (BinanceChecked /\ ~last.first)
      => /\ (last.res = "applied") <=> (last.U = last.prev + 1)
         /\ (last.res = "applied") => last_update_id[last.sym] = last.u
         /\ (last.res # "applied") => (last.res = "gap" /\ l2_book[last.sym] = NoBook)

\* a duplicate (u <= lastSequence) after the first accepted update: a gap
C3_Witness ==
    /\ BinanceChecked /\ ~last.first
    /\ last.u <= last.prev
    /\ last.res = "gap"
    /\ l2_book[last.sym] = NoBook

\* C4: (PoloniexFutures, strict policy) an update is applied only if
\* seq = lastSequence + 1, and then lastSequence becomes seq; an update with
\* seq <= lastSequence is discarded: no delta is emitted, lastSequence and
\* the book are left as they are, and the book is not destroyed.
C4_StrictSuccessor ==
    [][ PoloChecked' =>
          LET s == last'.sym IN
          /\ (last'.res = "applied")
                => (last'.u = last'.prev + 1 /\ seq_no'[s] = last'.u)
          /\ (last'.u <= last'.prev)
                => /\ last'.res = "skipped"
                   /\ NoDelta(out')
                   /\ seq_no'[s] = last'.prev
                   /\ _l2_book'[s] # NoBook
                   /\ (last'.nfetch = 0 => (_l2_book' = _l2_book /\ seq_no' = seq_no))
                   /\ (last'.nfetch = 1 => _l2_book'[s].sequence_number = last'.prev)
      ]_vars

\* the update that was applied last arrives again for a book with a level
C4_Witness ==
    /\ PoloChecked
    /\ last.nfetch = 0
    /\ last.res = "skipped"
    /\ last.u = last.prev
    /\ _l2_book[last.sym] # NoBook
    /\ _l2_book[last.sym].sequence_number = last.prev
    /\ _l2_book[last.sym].bids[1] # NoLevel

\* C5: (PoloniexFutures) an update with seq > lastSequence + 1 is discarded,
\* the symbol's OrderBook is destroyed and the symbol is UNSYNCED, and no
\* error is raised.
C5_StrictGapDestroys ==
    [][ (/\ feed' = "poloniex_futures"
         /\ last'.op = "book"
         /\ last'.prev # NoId
         /\ last'.u > last'.prev + 1)
          => /\ last'.res = "gap"
             /\ NoDelta(out')
             /\ _l2_book'[last'.sym] = NoBook
             /\ seq_no'[last'.sym] = NoId
      ]_vars

\* C6: the handling of a gap on one symbol leaves the book, lastSequence
\* and forced flag of every other symbol of the feed as they were (stated
\* for the other symbols that are synchronised and have had an update
\* accepted).
C6_GapIsLocal ==
    [][ (BinanceChecked' /\ last'.res = "gap")
          => \A t \in Syms \ {last'.sym} :
               forced[t] =>
               /\ l2_book'[t] = l2_book[t]
               /\ last_update_id'[t] = last_update_id[t]
               /\ forced'[t] = forced[t]
      ]_vars

\* C7: every accepted update leaves lastSequence strictly greater than it
\* was (window policy: the accepted [U, u] covers the old value + 1; strict
\* policy: the new value is the old one + 1), and lastSequence never
\* decreases while the symbol keeps its book.
C7_MonotonicSequence ==
    [][ /\ (BinanceChecked' /\ last'.res = "applied")
            => /\ last_update_id'[last'.sym] > last'.prev
               /\ last'.U <= last'.prev + 1
               /\ last'.prev + 1 <= last_update_id'[last'.sym]
        /\ (PoloChecked' /\ last'.res = "applied")
            => seq_no'[last'.sym] = last'.prev + 1
        /\ \A s \in Syms :
              /\ (l2_book[s] # NoBook /\ l2_book'[s] # NoBook)
                    => last_update_id'[s] >= last_update_id[s]
              /\ (_l2_book[s] # NoBook /\ _l2_book'[s] # NoBook)
                    => seq_no'[s] >= seq_no[s]
      ]_vars

\* an update covering several identifiers was accepted after the first one
C7_Witness ==
    /\ BinanceChecked /\ ~last.first
    /\ last.res = "applied"
    /\ last.U < last.u
    /\ last_update_id[last.sym] = last.u
    /\ last.u > last.prev + 1

\* C8: on a reconnect of one connection, the symbols of that connection
\* lose their books, and no symbol of another connection of the feed has
\* its book, lastSequence or forced flag changed (stated for the other
\* connections' symbols that are synchronised and have had an update
\* accepted).
C8_ReconnectIsLocal ==
    [][ (feed' = "binance" /\ last'.op = "subscribe" /\ ConnType(last'.sym) = "wss")
          => /\ \A s \in Owned(last'.sym) : l2_book'[s] = NoBook
             /\ \A t \in Syms \ Owned(last'.sym) :
                   forced[t] =>
                   /\ l2_book'[t] = l2_book[t]
                   /\ last_update_id'[t] = last_update_id[t]
                   /\ forced'[t] = forced[t]
      ]_vars

\* the snapshot and the delta of the end-to-end scenario, with sequence
\* 160, 161, 162 as 1, 2, 3, prices 50 (bid) and 51 (ask) as price 1 of
\* their side, and sizes 10, 5, 8 as 1, 1, 2
ScenarioSnapshot ==
    [fetch_ok |-> TRUE, has_id |-> TRUE, lastUpdateId |-> 1,
     has_bids |-> TRUE, bids |-> <<[price |-> 1, amount |-> 1]>>,
     has_asks |-> TRUE, asks |-> <<[price |-> 1, amount |-> 1]>>]
ScenarioDelta ==
    [U |-> 2, u |-> 3, b |-> <<[price |-> 1, amount |-> 0]>>,
     a |-> <<[price |-> 1, amount |-> 2]>>]
ScenarioBook == [bid |-> EmptySide, ask |-> [EmptySide EXCEPT ![1] = 2]]
ScenarioEvent == Event("book", "s1", TRUE, [bid |-> ScenarioDelta.b, ask |-> ScenarioDelta.a])
ScenarioRun ==
    LET snap == Binance_snapshot(Binance_reset(BState), "s1", ScenarioSnapshot)
    IN Binance_book_checked(snap.st, "s1", ScenarioDelta)

\* C9 as claimed: the bootstrap emits a snapshot event with forced = true
\* before any delta of the symbol, so a delta that finds no book and is
\* accepted after the snapshot leaves two events, the forced snapshot
\* event and then one incremental delta.
C9_SnapshotEventThenDelta ==
    (BinanceChecked /\ last.op = "resume")
      => /\ Len(out) >= 1
         /\ out[1].forced
         /\ out[1].delta = EmptyDelta
         /\ (last.res = "applied")
               => (Len(out) = 2 /\ ~out[2].forced)

\* C9 (amended): the bootstrap populates the book and emits no event of its
\* own; the delta that triggered it, when it passes the window check, is
\* applied and emitted as the single event of the handler, with forced =
\* true, and otherwise nothing is emitted.  The scenario emits exactly one
\* event (forced, removing the bid and setting the ask to its new size) and
\* ends with no bids and the one ask at the new size.
C9_ForcedFirstDelta ==
    /\ (BinanceChecked /\ last.op = "resume")
         => IF last.res = "applied"
              THEN /\ Len(out) = 1
                   /\ out[1].forced
                   /\ out[1].sym = last.sym
                   /\ l2_book[last.sym] # NoBook
              ELSE out = <<>>
    /\ \A i \in 1..Len(out) : (feed = "binance" /\ ~out[i].forced) => last.op = "book"
    /\ ScenarioRun.out = <<ScenarioEvent>>
    /\ ScenarioRun.st.l2_book["s1"] = ScenarioBook
    /\ ScenarioRun.st.last_update_id["s1"] = 3

\* the scenario has run: s1 had no book, the snapshot came back and the
\* delta was applied to it
C9_Witness ==
    /\ BinanceChecked /\ last.op = "resume"
    /\ last.sym = "s1"
    /\ last.res = "applied"
    /\ last.prev = 1 /\ last.U = 2 /\ last.u = 3
    /\ out = <<ScenarioEvent>>
    /\ l2_book["s1"] = ScenarioBook

\* C10: when the snapshot fetch fails or its response is malformed, the
\* error propagates and the symbol stays UNSYNCED: it has no OrderBook and
\* no lastSequence afterwards.
C10_FailedBootstrapLeavesNoBook ==
    (last.res = "raised")
      => /\ feed = "binance" => (l2_book[last.sym] = NoBook /\ last_update_id[last.sym] = NoId)
         /\ feed = "poloniex_futures" => (_l2_book[last.sym] = NoBook /\ seq_no[last.sym] = NoId)

\* C11: (Binance) between a snapshot and the first accepted update, an
\* update that ends at or before the snapshot's lastUpdateId (u <= S) is
\* skipped: no event, the book, lastSequence and the forced flag stay as they
\* are, the book is not destroyed and no snapshot request is started.
C11_StaleBeforeFirst ==
    [][ (BinanceChecked' /\ last'.first /\ last'.u <= last'.prev)
          => LET s == last'.sym IN
             /\ last'.res = "skipped"
             /\ out' = <<>>
             /\ l2_book'[s] # NoBook
             /\ last_update_id'[s] = last'.prev
             /\ ~forced'[s]
             /\ last'.nfetch = 0
             /\ \A c \in Conns : pc'[c] # s
             /\ (last'.op = "book")
                   => /\ l2_book' = l2_book
                      /\ last_update_id' = last_update_id
                      /\ forced' = forced
                      /\ pc' = pc
      ]_vars

\* lastSequence = 150 and u = 150, scaled: an update that ends exactly at
\* lastSequence came for a book with a bid and was skipped
C11_Witness ==
    /\ BinanceChecked /\ last.op = "book"
    /\ last.first
    /\ last.u = last.prev
    /\ last.res = "skipped"
    /\ out = <<>>
    /\ l2_book[last.sym] # NoBook
    /\ l2_book[last.sym].bid[1] # NoLevel

\* the first change of the list removes (size 0) a price that is not there
IdleHead(levels, changes) ==
    /\ changes # <<>>
    /\ Head(changes).amount = 0
    /\ levels[Head(changes).price] = NoLevel

\* C12: in an accepted update, a change of size 0 for a price that is not in
\* the book is as if it were not in the update: the side's levels and the
\* side's delta are those of the remaining changes, so a change of this kind
\* alone leaves the side as it was with no delta entry; the update is applied
\* without an error.
C12_IdempotentRemoval ==
    [][ /\ (BinanceChecked' /\ last'.op = "book" /\ last'.res = "applied")
            => LET s == last'.sym
                   same(side, changes) ==
                       IdleHead(l2_book[s][side], changes)
                         => LET rest == Binance_apply_side(l2_book[s][side], <<>>,
                                                           Tail(changes))
                            IN /\ l2_book'[s][side] = rest.levels
                               /\ out'[1].delta[side] = rest.delta
                               /\ (Tail(changes) = <<>>)
                                     => /\ l2_book'[s][side] = l2_book[s][side]
                                        /\ out'[1].delta[side] = <<>>
               IN same("bid", last'.b) /\ same("ask", last'.a)
        /\ (PoloChecked' /\ last'.nfetch = 0 /\ last'.res = "applied")
            => LET s == last'.sym IN
               /\ IdleHead(_l2_book[s].bids, last'.b)
                     => (_l2_book'[s].bids = _l2_book[s].bids /\ out'[1].delta.bid = <<>>)
               /\ IdleHead(_l2_book[s].asks, last'.a)
                     => (_l2_book'[s].asks = _l2_book[s].asks /\ out'[1].delta.ask = <<>>)
      ]_vars

\* an update whose only change removes a bid that is not in the book was
\* applied to a book that has an ask: no delta entry, the bid side is empty
C12_Witness ==
    /\ BinanceChecked /\ last.op = "book"
    /\ last.res = "applied"
    /\ last.b = <<[price |-> 1, amount |-> 0]>>
    /\ last.a = <<>>
    /\ Len(out) = 1
    /\ out[1].delta = EmptyDelta
    /\ l2_book[last.sym].bid[1] = NoLevel
    /\ l2_book[last.sym].ask[1] # NoLevel

\* what _address returned, as a set of targets (key, address)
TargetSet(addr) ==
    IF addr.kind = "dict" THEN addr.ret
    ELSE IF addr.kind = "str" THEN {[key |-> "address", address |-> addr.address]}
    ELSE {}

Range(seq) == {seq[i] : i \in DOMAIN seq}

CeilDiv(n, d) == (n + d - 1) \div d

\* the targets cover the entries exactly once in ceil(n / 200) addresses,
\* which are full except for the one that holds the last entry
Sharding(entries, targets) ==
    LET n == Len(entries)
        k == CeilDiv(n, StreamLimit)
    IN /\ Cardinality(targets) = k
       /\ \A i \in 1..n :
             Cardinality({t \in targets : entries[i] \in Range(t.address)}) = 1
       /\ \A t \in targets :
             /\ Cardinality(Range(t.address)) = Len(t.address)
             /\ Len(t.address) =
                   IF entries[n] \in Range(t.address) THEN n - StreamLimit * (k - 1)
                   ELSE StreamLimit

\* C13 as claimed: for any non-empty set of subscribed (channel, symbol)
\* pairs the targets number ceil(n / 200), every pair's stream is in exactly
\* one target, and every target but the last holds 200 streams.
C13_ShardingCoversPairs ==
    (address # NotBuilt /\ SubscribedPairs(subscription) # <<>>)
      => Sharding(SubscribedPairs(subscription), TargetSet(address))

\* the subscribed pairs of the channels other than OPEN_INTEREST, in order
StreamPairs ==
    PairsOf(subscription, "depth") \o PairsOf(subscription, "aggTrade")

\* C13 (amended): the pairs of the channel OPEN_INTEREST are in no target;
\* for the n pairs of the other channels, if there is one, the targets
\* number ceil(n / 200), every such pair's stream is in exactly one target,
\* every target but the last holds 200 streams and none is lost to a shared
\* key (450 pairs: 3 targets of 200, 200 and 50 streams).
C13_ShardingCoversStreams ==
    (address # NotBuilt)
      => /\ StreamPairs # <<>> => Sharding(StreamPairs, TargetSet(address))
         /\ \A t \in TargetSet(address) : \A e \in Range(t.address) : IsStream(e)

\* 450 pairs, one of OPEN_INTEREST besides: three targets of 200, 200, 50
C13_Witness ==
    /\ address # NotBuilt
    /\ subscription = [depth |-> 200, open_interest |-> 1, aggTrade |-> 250]
    /\ address.kind = "dict"
    /\ Cardinality(address.ret) = 3
    /\ {Len(t.address) : t \in address.ret} = {200, 50}
    /\ Cardinality({t \in address.ret : Len(t.address) = 200}) = 2

\* C14: _address returns None exactly when the loops got to no stream, and
\* no target it returns has an address without a stream, also when the
\* number of streams is a multiple of 200.
C14_NoEmptyTarget ==
    (address # NotBuilt)
      => /\ (address.kind = "None")
              <=> (subscription.depth + subscription.aggTrade = 0)
         /\ \A t \in TargetSet(address) : Len(t.address) > 0

\* 400 streams: two full targets and no third one
C14_Witness ==
    /\ address # NotBuilt
    /\ subscription.depth = 200 /\ subscription.aggTrade = 200
    /\ address.kind = "dict"
    /\ Cardinality(address.ret) = 2
    /\ \A t \in address.ret : Len(t.address) = StreamLimit

\* C15: a snapshot response that comes back after the feed was reset while
\* its request was in flight changes nothing: the symbol has no book and no
\* lastSequence after the step that handled the response (stated for the
\* well-formed responses, after which the update in hand is applied or is
\* stale).
C15_LateSnapshotIgnored ==
    [][ \A c \in Conns :
          (/\ feed = "binance" /\ c \in stale /\ pc[c] \in Syms /\ pc'[c] = "idle"
           /\ last'.res \in {"applied", "skipped"})
            => /\ l2_book'[pc[c]] = NoBook
               /\ last_update_id'[pc[c]] = NoId
      ]_vars

\* C16: a frame that message_handler dispatches to no channel handler is
\* logged and dropped: the handler raises nothing and changes no book, no
\* lastSequence and no forced flag.
C16_UnrecognizedDropped ==
    [][ (last'.op = "message")
          => /\ last'.res = "dropped"
             /\ out' = <<>>
             /\ UNCHANGED <<forced, l2_book, last_update_id, _l2_book, seq_no, pc>>
      ]_vars

\* the two sides of a symbol's book, whichever the adapter
SidesOf(s) ==
    IF feed = "binance" THEN l2_book[s]
    ELSE IF _l2_book[s] = NoBook THEN NoBook
    ELSE [bid |-> _l2_book[s].bids, ask |-> _l2_book[s].asks]

\* the levels hold what the delta reports: for each price, its last entry
Reflects(levels, delta) ==
    \A i \in 1..Len(delta) :
        (\A j \in (i + 1)..Len(delta) : delta[j].price # delta[i].price)
          => levels[delta[i].price] =
                IF delta[i].amount = 0 THEN NoLevel ELSE delta[i].amount

IsDelta(event) == event.kind \in {"book", "delta"}

\* C17: when an event with a delta is handed to the callbacks, the symbol's
\* book holds every change the delta reports (for a price reported twice,
\* the later one), and a step that skipped its update or declared a gap
\* hands over no delta.
C17_DeltaAfterCommit ==
    /\ \A i \in 1..Len(out) :
          IsDelta(out[i])
            => /\ SidesOf(out[i].sym) # NoBook
               /\ Reflects(SidesOf(out[i].sym).bid, out[i].delta.bid)
               /\ Reflects(SidesOf(out[i].sym).ask, out[i].delta.ask)
    /\ (last.res \in {"skipped", "gap"})
          => \A i \in 1..Len(out) : ~IsDelta(out[i])

\* a bid was set and removed by one update: both changes are in the delta
\* and the book has the bid no more
C17_Witness ==
    /\ BinanceChecked
    /\ last.res = "applied"
    /\ Len(out) = 1
    /\ out[1].delta.bid = <<[price |-> 1, amount |-> MaxSize], [price |-> 1, amount |-> 0]>>
    /\ l2_book[last.sym] # NoBook
    /\ l2_book[last.sym].bid[1] = NoLevel

NoZeroLevel(sides) ==
    sides # NoBook => \A p \in Prices : sides.bid[p] # 0 /\ sides.ask[p] # 0

\* C18: no book stores a level of size 0, whether it came from a snapshot
\* or from an applied update (stated after every step of _book that did not
\* raise).
C18_NoZeroLevel ==
    (last.res \in {"applied", "skipped", "gap"})
      => \A s \in Syms : NoZeroLevel(SidesOf(s))

\* -- the reference, written from the rule and not as the loop of _book --
\* the level of price p after the changes: what the last change that names
\* p says, and the level as it was when none does
RefLevel(level, changes, p) ==
    LET named == {i \in DOMAIN changes : changes[i].price = p}
    IN IF named = {} THEN level
       ELSE LET n == CHOOSE i \in named : \A j \in named : j <= i
            IN IF changes[n].amount = 0 THEN NoLevel ELSE changes[n].amount

RefSide(levels, changes) == [p \in Prices |-> RefLevel(levels[p], changes, p)]

\* the price of the n-th change is in the book when that change is made
Existed(levels, changes, n) ==
    RefLevel(levels[changes[n].price], SubSeq(changes, 1, n - 1), changes[n].price)
      # NoLevel

\* the first n changes without the removals of levels that did not exist
RECURSIVE RefDelta(_, _, _)
RefDelta(levels, changes, n) ==
    IF n = 0 THEN <<>>
    ELSE IF changes[n].amount # 0 \/ Existed(levels, changes, n)
      THEN Append(RefDelta(levels, changes, n - 1), changes[n])
    ELSE RefDelta(levels, changes, n - 1)

\* C19: an accepted update leaves the book as the reference says: the
\* changes made in order, size 0 removing the level and any other size
\* setting it, the levels no change names as they were, other symbols'
\* books untouched; and the one event's delta lists, per side and in order,
\* the upserts and the removals of levels that existed.  Where the book was
\* built by the same step, the levels the update names are as its last
\* change for them says.
C19_AppliedEqualsReference ==
    [][ /\ (BinanceChecked' /\ last'.op = "book" /\ last'.res = "applied")
            => LET s == last'.sym IN
               /\ l2_book'[s] # NoBook
               /\ l2_book'[s].bid = RefSide(l2_book[s].bid, last'.b)
               /\ l2_book'[s].ask = RefSide(l2_book[s].ask, last'.a)
               /\ \A x \in Syms \ {s} : l2_book'[x] = l2_book[x]
               /\ out' = <<Event("book", s, last'.first,
                                 [bid |-> RefDelta(l2_book[s].bid, last'.b, Len(last'.b)),
                                  ask |-> RefDelta(l2_book[s].ask, last'.a, Len(last'.a))])>>
        /\ (BinanceChecked' /\ last'.op = "resume" /\ last'.res = "applied")
            => LET s == last'.sym IN
               /\ \A i \in DOMAIN last'.b :
                     l2_book'[s].bid[last'.b[i].price]
                        = RefLevel(NoLevel, last'.b, last'.b[i].price)
               /\ \A i \in DOMAIN last'.a :
                     l2_book'[s].ask[last'.a[i].price]
                        = RefLevel(NoLevel, last'.a, last'.a[i].price)
        /\ (PoloChecked' /\ last'.nfetch = 0 /\ last'.res = "applied")
            => LET s == last'.sym IN
               /\ _l2_book'[s].bids = RefSide(_l2_book[s].bids, last'.b)
               /\ _l2_book'[s].asks = RefSide(_l2_book[s].asks, last'.a)
               /\ \A x \in Syms \ {s} : _l2_book'[x] = _l2_book[x]
               /\ out' = <<Event("delta", s, FALSE,
                                 [bid |-> RefDelta(_l2_book[s].bids, last'.b, Len(last'.b)),
                                  ask |-> RefDelta(_l2_book[s].asks, last'.a, Len(last'.a))])>>
      ]_vars

\* a bid was removed and set by one update to a book that has an ask: the
\* bid has the new size, the ask is as it was, the delta has the upsert
C19_Witness ==
    /\ BinanceChecked /\ last.op = "book"
    /\ last.res = "applied"
    /\ last.b = <<[price |-> 1, amount |-> 0], [price |-> 1, amount |-> MaxSize]>>
    /\ last.a = <<>>
    /\ l2_book[last.sym].bid[1] = MaxSize
    /\ l2_book[last.sym].ask[1] \in 1..MaxSize
    /\ Len(out) = 1
    /\ out[1].delta.ask = <<>>
    /\ out[1].delta.bid = <<[price |-> 1, amount |-> MaxSize]>>

\* C20: (Binance) the event of an accepted update has forced = true exactly
\* when no update was accepted since the symbol's book was built: a book is
\* built with the mark unset, the first accepted update sets it and is
\* emitted forced, every later accepted one is emitted with forced = false,
\* a stale update leaves the mark as it is, and the mark goes with the book.
C20_ForcedFirstOnly ==
    [][ (feed = "binance") =>
          \A s \in Syms :
            /\ forced'[s] => l2_book'[s] # NoBook
            /\ (l2_book[s] = NoBook /\ l2_book'[s] # NoBook)
                  => (forced'[s] <=> (last'.sym = s /\ last'.res = "applied"))
            /\ (BinanceChecked' /\ last'.sym = s)
                  => /\ (last'.op = "resume") => last'.first
                     /\ (last'.op = "book") => (last'.first <=> ~forced[s])
                     /\ (last'.res = "applied")
                           => /\ Len(out') = 1
                              /\ out'[1].sym = s
                              /\ out'[1].forced = last'.first
                              /\ forced'[s]
                     /\ (last'.res = "skipped")
                           => (out' = <<>> /\ last'.first /\ ~forced'[s])
                     /\ (last'.res = "gap") => (out' = <<>> /\ ~forced'[s])
      ]_vars

\* the second update accepted since the book was built: not forced
C20_Witness ==
    /\ BinanceChecked /\ last.op = "book"
    /\ ~last.first
    /\ last.res = "applied"
    /\ Len(out) = 1
    /\ ~out[1].forced
    /\ forced[last.sym]

ValidDepths == {valid_depths[i] : i \in DOMAIN valid_depths}

\* C21: the depth a snapshot request asks for is one of valid_depths: the
\* configured max_depth when that is valid (1000 when it is unset), and
\* otherwise the smallest valid depth greater than the configured one.
C21_RequestedDepthValid ==
    (feed = "binance" /\ last.op = "book" /\ last.res = "fetching")
      => LET configured == IF subscription.max_depth = NoDepth THEN DefaultDepth
                           ELSE subscription.max_depth
         IN /\ last.limit \in ValidDepths
            /\ (configured \in ValidDepths) => last.limit = configured
            /\ (configured \notin ValidDepths)
                  => /\ last.limit > configured
                     /\ \A d \in ValidDepths : d > configured => last.limit <= d

\* C22: in every reachable state of a Binance feed, every symbol that has a
\* book has a lastSequence entry and every symbol marked forced has a book;
\* so whenever the sequence check has run it found the symbol's lastSequence,
\* and whenever levels were applied the symbol's book was there.
C22_BookHasSequence ==
    feed = "binance"
      => /\ \A s \in Syms :
              /\ l2_book[s] # NoBook => last_update_id[s] # NoId
              /\ forced[s] => l2_book[s] # NoBook
         /\ BinanceChecked => last.prev # NoId
         /\ (BinanceChecked /\ last.res = "applied")
               => l2_book[last.sym] # NoBook

\* a reset has come while a snapshot request of connection c1 is in flight,
\* and the other connection has since rebuilt a book and applied an update
\* to it
C22_Witness ==
    /\ feed = "binance"
    /\ "c1" \in stale
    /\ pc["c1"] # "idle"
    /\ BinanceChecked
    /\ last.res = "applied"
    /\ forced[last.sym]
    /\ l2_book[last.sym] # NoBook
    /\ last_update_id[last.sym] # NoId
    /\ \E s \in Syms : l2_book[s] = NoBook

====
